---- MODULE Spec2Model ----
(***************************************************************************)
(* Model of the calculation engine of streamlit_app.py (comparador-rf):    *)
(* tax-bracket resolution, compound return, the individual scenario of     *)
(* tab 1 and the batch of scenarios of tab 2 with its best/worst           *)
(* selection.                                                              *)
(*                                                                         *)
(* Numbers.  The script computes in Python floats; the model computes in   *)
(* exact integer arithmetic over fixed units:                              *)
(*   - tax rates in units of 1/TaxScale (0.025), which represents every    *)
(*     rate of the source exactly (0.15 = 6/40, 0.175 = 7/40, ...);        *)
(*   - widget percentages in units of 0.01 % (the widgets' step);          *)
(*   - annual rates in units of 1/RateUnit percent;                        *)
(*   - period returns in units of 1/One, where One = RScale * TaxScale,    *)
(*     so that return * (1 - tax) is an exact integer;                     *)
(*   - money: the principal in units of R$ 100, final amounts in units of  *)
(*     R$ 100 / One;                                                       *)
(*   - a quotient a / b is kept as the exact fraction [num, den]; a zero   *)
(*     divisor raises ZeroDivisionError as Python's float division does.   *)
(* The only rounded quantity is the power (1 + rate/100) ** (days/365),    *)
(* tabulated from the source expression to 1/RScale.                       *)
(***************************************************************************)
EXTENDS Integers, Sequences, FiniteSets, TLC

\* ---------------------------------------------------------------- state
VARIABLES
    pc,                          \* position of the script run
    raised,                      \* the exception that ended the run, or "None"
    tab1,                        \* the locals of tab 1
    scenario_investment_type,
    scenario_return_type,
    scenario_initial_investment,
    scenario_cdi_value,
    scenario_investment_return,
    scenario_type,
    scenario_total_rate_gross,
    scenario_cdi_percentage,
    scenarios_days,
    scenario_labels,
    i,                           \* loop index of tab 2, from 1
    scenarios_data,
    best_scenario,               \* <<>> while unassigned, else <<index, row>>
    worst_scenario,
    call_result,                 \* result of a direct call of calculate_compound_return
    last_run,                    \* history: an earlier finished batch evaluation
    last_tab1                    \* history: an earlier finished individual evaluation

\* ---------------------------------------------------------------- units
TaxScale == 40
RScale == 10000
One == RScale * TaxScale
PctUnit == 100
RateUnit == 1000 * TaxScale

\* ---------------------------------------------------------------- bounds
\* number of custom-term widgets modelled (the script draws range(6))
NumSlots == 3

\* ---------------------------------------------------------------- inputs
\* st.radio options of both tabs, plus one value outside the radio's options
\* standing for a category that violates the closed two-value contract
RadioInvestmentTypes == {"Tributável", "Isento"}
InvestmentTypes == RadioInvestmentTypes \cup {"Outro"}
ReturnTypes == {"% CDI", "Pré-fixado"}
\* principal: R$ 100.00 (the widget minimum) and R$ 10000.00 (the default)
InvestmentChoices == {1, 100}
\* CDI: 0.00 % (the widget minimum) and 14.65 % (the default)
CdiChoices == {0, 1465}
\* return: 0.00, 14.00 (default pre-fixed) and 100.00 (default % of CDI)
ReturnChoices == {0, 1400, 10000}
\* terms on both sides of every bracket boundary
TermChoices == {179, 180, 359, 360, 719, 720}
\* value of one custom-term widget; 0 is the value the guard `if days > 0`
\* of the script filters out
CustomDayChoices == TermChoices \cup {0}
\* arguments of a direct call of calculate_compound_return
CallRates == {-150000 * TaxScale, -100000 * TaxScale, 0, 14650 * TaxScale}
CallDays == {30, 365}

\* ---------------------------------------------------------------- helpers
Min(a, b) == IF a < b THEN a ELSE b

\* Python's a / b on floats
Divide(a, b) ==
    IF b = 0 THEN [ok |-> FALSE, num |-> 0, den |-> 0]
    ELSE [ok |-> TRUE, num |-> a, den |-> b]

NoFrac == [ok |-> TRUE, num |-> 0, den |-> 1]

\* the tax added to the return instead of deducted: x * (1 + tax)
TimesOneMinus_tax_added(x, tax) == (x \div TaxScale) * (TaxScale + tax)

\* the tax taken instead of the part kept: x * tax
TimesOneMinus_tax_kept(x, tax) == (x \div TaxScale) * tax

\* x * (1 - tax), x a multiple of TaxScale
TimesOneMinus(x, tax) == (x \div TaxScale) * (TaxScale - tax)

\* x * tax, x a multiple of TaxScale
TimesRate(x, tax) == (x \div TaxScale) * tax

\* ---------------------------------------------------------------- tax rates
\* the literals of the source, in units of 1/TaxScale
Rate_0_15 == 6
Rate_0_175 == 7
Rate_0_2 == 8
Rate_0_225 == 9
Rate_0_05 == 2
Rate_0_0 == 0

\* tab 1 with the boundaries compared with > instead of >=
tab1_tax_rate_old_exclusive(term_input) ==
    IF term_input > 720 THEN Rate_0_15
    ELSE IF term_input > 360 THEN Rate_0_175
    ELSE IF term_input > 180 THEN Rate_0_2
    ELSE Rate_0_225

\* tab 1 with the second boundary at 365 days instead of 360
tab1_tax_rate_old_365(term_input) ==
    IF term_input >= 720 THEN Rate_0_15
    ELSE IF term_input >= 365 THEN Rate_0_175
    ELSE IF term_input >= 180 THEN Rate_0_2
    ELSE Rate_0_225

\* tab 1, "Tax calculation"
tab1_tax_rate_old(term_input) ==
    IF term_input >= 720 THEN Rate_0_15
    ELSE IF term_input >= 360 THEN Rate_0_175
    ELSE IF term_input >= 180 THEN Rate_0_2
    ELSE Rate_0_225

\* the boundaries compared with > instead of >=
current_tax_rate_exclusive(days) ==
    IF days > 720 THEN Rate_0_15
    ELSE IF days > 360 THEN Rate_0_175
    ELSE IF days > 180 THEN Rate_0_2
    ELSE Rate_0_225

\* the final else branch missing: below 180 days current_tax_rate keeps the
\* value the previous iteration of the loop left in it
current_tax_rate_sticky(days) ==
    IF days >= 720 THEN Rate_0_15
    ELSE IF days >= 360 THEN Rate_0_175
    ELSE IF days >= 180 THEN Rate_0_2
    ELSE IF scenarios_data # <<>>
    THEN current_tax_rate_exclusive(scenarios_data[Len(scenarios_data)].Dias + 1)
    ELSE Rate_0_225

\* tab 2, "Determine tax rate for current regime"
current_tax_rate(days) ==
    IF days >= 720 THEN Rate_0_15
    ELSE IF days >= 360 THEN Rate_0_175
    ELSE IF days >= 180 THEN Rate_0_2
    ELSE Rate_0_225

\* the exempt branch leaving the bracket rate in place
default_tax_rate_exempt_passthrough(tax_rate_old, investment_type) ==
    IF investment_type = "Tributável"
    THEN [raised |-> FALSE, tax_rate_old |-> tax_rate_old, tax_rate_new |-> Rate_0_175]
    ELSE IF investment_type = "Isento"
    THEN [raised |-> FALSE, tax_rate_old |-> tax_rate_old, tax_rate_new |-> Rate_0_05]
    ELSE [raised |-> TRUE, tax_rate_old |-> tax_rate_old, tax_rate_new |-> 0]

\* the new rate of the taxable branch mistyped as 0.225
default_tax_rate_new_high(tax_rate_old, investment_type) ==
    IF investment_type = "Tributável"
    THEN [raised |-> FALSE, tax_rate_old |-> tax_rate_old, tax_rate_new |-> Rate_0_225]
    ELSE IF investment_type = "Isento"
    THEN [raised |-> FALSE, tax_rate_old |-> Rate_0_0, tax_rate_new |-> Rate_0_05]
    ELSE [raised |-> TRUE, tax_rate_old |-> tax_rate_old, tax_rate_new |-> 0]

\* default_tax_rate: with neither branch taken, tax_rate_new is unbound at
\* the return statement and Python raises UnboundLocalError
default_tax_rate(tax_rate_old, investment_type) ==
    IF investment_type = "Tributável"
    THEN [raised |-> FALSE, tax_rate_old |-> tax_rate_old, tax_rate_new |-> Rate_0_175]
    ELSE IF investment_type = "Isento"
    THEN [raised |-> FALSE, tax_rate_old |-> Rate_0_0, tax_rate_new |-> Rate_0_05]
    ELSE [raised |-> TRUE, tax_rate_old |-> tax_rate_old, tax_rate_new |-> 0]

\* the two rates of the taxable branch swapped
scenario_tax_rates_swapped(current, investment_type) ==
    IF investment_type = "Tributável"
    THEN [tax_old |-> Rate_0_175, tax_new |-> current]
    ELSE [tax_old |-> Rate_0_0, tax_new |-> Rate_0_05]

\* the exempt branch with the two regimes exchanged
scenario_tax_rates_exempt_swapped(current, investment_type) ==
    IF investment_type = "Tributável"
    THEN [tax_old |-> current, tax_new |-> Rate_0_175]
    ELSE [tax_old |-> Rate_0_05, tax_new |-> Rate_0_0]

\* tab 2, "Apply investment type logic": the else branch takes every value
\* other than 'Tributável'
scenario_tax_rates(current, investment_type) ==
    IF investment_type = "Tributável"
    THEN [tax_old |-> current, tax_new |-> Rate_0_175]
    ELSE [tax_old |-> Rate_0_0, tax_new |-> Rate_0_05]

\* ---------------------------------------------------------------- compound return
\* ((1 + rate/100) ** (days/365)) - 1 evaluated by the source expression,
\* rounded to 1/RScale; keys are <<rate in 0.001 %, days>>
PowTable ==
    <<1400, 30>> :> 11 @@ <<1400, 90>> :> 34 @@ <<1400, 179>> :> 68 @@ <<1400, 180>> :> 69 @@ <<1400, 359>> :> 138 @@ <<1400, 360>> :> 138 @@ <<1400, 365>> :> 140 @@ <<1400, 719>> :> 278 @@ <<1400, 720>> :> 278 @@ <<1400, 1080>> :> 420 @@
    <<10000, 30>> :> 79 @@ <<10000, 90>> :> 238 @@ <<10000, 179>> :> 479 @@ <<10000, 180>> :> 481 @@ <<10000, 359>> :> 983 @@ <<10000, 360>> :> 986 @@ <<10000, 365>> :> 1000 @@ <<10000, 719>> :> 2065 @@ <<10000, 720>> :> 2068 @@ <<10000, 1080>> :> 3258 @@
    <<2051, 30>> :> 17 @@ <<2051, 90>> :> 50 @@ <<2051, 179>> :> 100 @@ <<2051, 180>> :> 101 @@ <<2051, 359>> :> 202 @@ <<2051, 360>> :> 202 @@ <<2051, 365>> :> 205 @@ <<2051, 719>> :> 408 @@ <<2051, 720>> :> 409 @@ <<2051, 1080>> :> 619 @@
    <<14000, 30>> :> 108 @@ <<14000, 90>> :> 328 @@ <<14000, 179>> :> 664 @@ <<14000, 180>> :> 668 @@ <<14000, 359>> :> 1375 @@ <<14000, 360>> :> 1380 @@ <<14000, 365>> :> 1400 @@ <<14000, 719>> :> 2945 @@ <<14000, 720>> :> 2949 @@ <<14000, 1080>> :> 4736 @@
    <<14650, 30>> :> 113 @@ <<14650, 90>> :> 343 @@ <<14650, 179>> :> 693 @@ <<14650, 180>> :> 697 @@ <<14650, 359>> :> 1439 @@ <<14650, 360>> :> 1444 @@ <<14650, 365>> :> 1465 @@ <<14650, 719>> :> 3091 @@ <<14650, 720>> :> 3095 @@ <<14650, 1080>> :> 4986 @@
    <<100000, 30>> :> 586 @@ <<100000, 90>> :> 1864 @@ <<100000, 179>> :> 4048 @@ <<100000, 180>> :> 4075 @@ <<100000, 359>> :> 9773 @@ <<100000, 360>> :> 9811 @@ <<100000, 365>> :> 10000 @@ <<100000, 719>> :> 29173 @@ <<100000, 720>> :> 29248 @@ <<100000, 1080>> :> 67753 @@
    <<-150000, 365>> :> -15000

\* a result cache keyed by the rate alone: once a batch has been evaluated
\* at a rate, its first period return is served for every term
calculate_compound_return_memo(rate, days) ==
    IF last_run.valid /\ last_run.data # <<>> /\ last_run.total_rate_gross = rate
    THEN [kind |-> "float", val |-> last_run.data[1].gross_return_period]
    ELSE IF rate = 0 THEN [kind |-> "float", val |-> 0]
    ELSE [kind |-> "float", val |-> PowTable[<<rate \div TaxScale, days>>] * TaxScale]

\* calculate_compound_return(rate, days): rate in 1/RateUnit percent, the
\* result in 1/One.  Python evaluates the expression for every rate: a base
\* of 1 gives 0, a base of 0 gives -1, a negative base gives a complex
\* number unless the exponent days/365 is integral.  Nothing is raised.
calculate_compound_return(rate, days) ==
    IF rate = 0 THEN [kind |-> "float", val |-> 0]
    ELSE IF rate = -100 * RateUnit THEN [kind |-> "float", val |-> -One]
    ELSE IF rate < -100 * RateUnit /\ days % 365 # 0 THEN [kind |-> "complex", val |-> 0]
    ELSE [kind |-> "float", val |-> PowTable[<<rate \div TaxScale, days>>] * TaxScale]

\* ---------------------------------------------------------------- rate interpretation
\* (return / 100) * cdi, both widget values in 0.01 %, result in 1/RateUnit %
pct_of_cdi_rate(investment_return, cdi_value) ==
    (investment_return * cdi_value) \div ((PctUnit * PctUnit * 100) \div RateUnit)

\* a pre-fixed widget value used directly as the annual rate
prefixed_rate(investment_return) == investment_return * (RateUnit \div PctUnit)

\* (rate / cdi) * 100, rate in 1/RateUnit %, cdi in 0.01 %
to_cdi_percent(rate, cdi_value) == Divide(rate * 100, cdi_value * (RateUnit \div PctUnit))

\* ---------------------------------------------------------------- tab 1
Tab1Blank ==
    [investment_type_input_selector |-> "", return_type_input_selector |-> "",
     initial_investment |-> 0, cdi_value_input |-> 0, investment_return_input |-> 0,
     term_input |-> 0,
     tax_rate_old |-> 0, tax_rate_new |-> 0,
     cdi_percentage |-> NoFrac, total_rate_gross |-> 0,
     gross_return_period |-> 0, net_return_old_period |-> 0, net_return_new_period |-> 0,
     final_amount_gross |-> 0, final_amount_net_old |-> 0, final_amount_net_new |-> 0,
     total_rate_net_old |-> 0, total_rate_net_new |-> 0,
     difference |-> 0, difference_pct |-> NoFrac,
     tax_old |-> 0, tax_new |-> 0,
     percentage_diff |-> NoFrac, tax_diff_percentage |-> NoFrac,
     cdi_net_old |-> NoFrac, cdi_net_new |-> NoFrac,
     raised |-> "None", line |-> 0]

Abs(x) == IF x < 0 THEN -x ELSE x

\* the body of `with tab1:` from the tax calculation on; the record holds the
\* locals assigned before the script ended or raised (raised, line)
Tab1Body(it, rt, ii, cdi, ret, term) ==
    LET w == [Tab1Blank EXCEPT !.investment_type_input_selector = it,
                               !.return_type_input_selector = rt,
                               !.initial_investment = ii,
                               !.cdi_value_input = cdi,
                               !.investment_return_input = ret,
                               !.term_input = term]
        rates == default_tax_rate(tab1_tax_rate_old(term), it)
        a == [w EXCEPT !.tax_rate_old = rates.tax_rate_old,
                       !.tax_rate_new = rates.tax_rate_new]
        cdi_percentage == IF rt = "% CDI" THEN Divide(ret, PctUnit)
                          ELSE Divide(ret * 100, cdi)
        total_rate_gross == IF rt = "% CDI" THEN pct_of_cdi_rate(ret, cdi)
                            ELSE prefixed_rate(ret)
        gross_return_period == calculate_compound_return(total_rate_gross, term).val
        net_return_old_period == TimesOneMinus(gross_return_period, a.tax_rate_old)
        net_return_new_period == TimesOneMinus(gross_return_period, a.tax_rate_new)
        final_amount_gross == ii * (One + gross_return_period)
        final_amount_net_old == ii * (One + net_return_old_period)
        final_amount_net_new == ii * (One + net_return_new_period)
        difference == final_amount_net_new - final_amount_net_old
        difference_pct == Divide(difference * 100, final_amount_net_old)
        tax_old == TimesRate(final_amount_gross - ii * One, a.tax_rate_old)
        tax_new == TimesRate(final_amount_gross - ii * One, a.tax_rate_new)
        tax_diff_percentage == IF tax_old > 0
                               THEN Divide(Abs(tax_new - tax_old) * 100, tax_old)
                               ELSE NoFrac
        b == [a EXCEPT !.cdi_percentage = cdi_percentage,
                       !.total_rate_gross = total_rate_gross,
                       !.gross_return_period = gross_return_period,
                       !.net_return_old_period = net_return_old_period,
                       !.net_return_new_period = net_return_new_period,
                       !.final_amount_gross = final_amount_gross,
                       !.final_amount_net_old = final_amount_net_old,
                       !.final_amount_net_new = final_amount_net_new,
                       !.total_rate_net_old = TimesOneMinus(total_rate_gross, a.tax_rate_old),
                       !.total_rate_net_new = TimesOneMinus(total_rate_gross, a.tax_rate_new),
                       !.difference = difference]
        c == [b EXCEPT !.difference_pct = difference_pct,
                       !.tax_old = tax_old, !.tax_new = tax_new,
                       !.percentage_diff = Divide(Abs(difference) * 100, final_amount_net_old),
                       !.tax_diff_percentage = tax_diff_percentage]
        cdi_net_old == to_cdi_percent(c.total_rate_net_old, cdi)
        cdi_net_new == to_cdi_percent(c.total_rate_net_new, cdi)
    IN  IF rates.raised
        THEN [w EXCEPT !.raised = "UnboundLocalError", !.line = 130]
        ELSE IF ~cdi_percentage.ok
        THEN [a EXCEPT !.raised = "ZeroDivisionError", !.line = 138]
        ELSE IF ~difference_pct.ok
        THEN [b EXCEPT !.raised = "ZeroDivisionError", !.line = 216]
        ELSE IF ~cdi_net_old.ok
        THEN [c EXCEPT !.raised = "ZeroDivisionError", !.line = 404]
        ELSE [c EXCEPT !.cdi_net_old = cdi_net_old, !.cdi_net_new = cdi_net_new]

\* ---------------------------------------------------------------- tab 2
\* "Prazos Padrão"
StandardDays == <<30, 90, 180, 365, 720, 1080>>
StandardLabels == <<"1 mês", "3 meses", "6 meses", "1 ano", "2 anos", "3 anos">>

\* the slice [:6] applied to the custom lists
MaxScenarios == 6

\* the label the script formats for one custom term
custom_label(days) ==
    IF days < 30 THEN ToString(days) \o "d"
    ELSE IF days < 365 THEN ToString(days \div 30) \o "m"
    ELSE IF days % 365 > 0
    THEN ToString(days \div 365) \o "a" \o ToString((days % 365) \div 30) \o "m"
    ELSE ToString(days \div 365) \o "a"

\* the loop over the six custom widgets: a value is appended, with its label,
\* when it is > 0; widget is the function slot -> value
RECURSIVE custom_days(_, _)
custom_days(widget, n) ==
    IF n = 0 THEN <<>>
    ELSE IF widget[n] > 0 THEN Append(custom_days(widget, n - 1), widget[n])
    ELSE custom_days(widget, n - 1)

RECURSIVE custom_labels(_, _)
custom_labels(widget, n) ==
    IF n = 0 THEN <<>>
    ELSE IF widget[n] > 0 THEN Append(custom_labels(widget, n - 1), custom_label(widget[n]))
    ELSE custom_labels(widget, n - 1)

Slice(seq, n) == SubSeq(seq, 1, Min(n, Len(seq)))

\* the bound compared one short: the last row takes the fallback label
row_label_short(idx, days, labels) ==
    IF idx < Len(labels) THEN labels[idx] ELSE ToString(days) \o "d"

\* 'Prazo': scenario_labels[i] if i < len(scenario_labels) else f"{days}d"
row_label(idx, days, labels) ==
    IF idx <= Len(labels) THEN labels[idx] ELSE ToString(days) \o "d"

\* one iteration of `for i, days in enumerate(scenarios_days)`; idx is i + 1.
\* The record is the dictionary appended to scenarios_data (numeric entries;
\* the formatted strings are display only), or raised = TRUE when a division
\* by scenario_cdi_value raises before the append.
scenario_row(idx, days, labels, investment_type, initial_investment, cdi_value, total_rate_gross) ==
    LET rates == scenario_tax_rates(current_tax_rate(days), investment_type)
        tax_old == rates.tax_old
        tax_new == rates.tax_new
        gross_return_period == calculate_compound_return(total_rate_gross, days).val
        net_return_old_period == TimesOneMinus(gross_return_period, tax_old)
        net_return_new_period == TimesOneMinus(gross_return_period, tax_new)
        gross_annual_rate == total_rate_gross
        net_annual_old == TimesOneMinus(gross_annual_rate, tax_old)
        net_annual_new == TimesOneMinus(gross_annual_rate, tax_new)
        cdi_gross == to_cdi_percent(gross_annual_rate, cdi_value)
        cdi_net_old == to_cdi_percent(net_annual_old, cdi_value)
        cdi_net_new == to_cdi_percent(net_annual_new, cdi_value)
        final_gross == initial_investment * (One + gross_return_period)
        final_net_old == initial_investment * (One + net_return_old_period)
        final_net_new == initial_investment * (One + net_return_new_period)
        difference == final_net_new - final_net_old
        difference_pct == IF final_net_old > 0
                          THEN Divide(difference * 100, final_net_old)
                          ELSE NoFrac
    IN  [raised |-> ~cdi_gross.ok,
         Prazo |-> row_label(idx, days, labels),
         Dias |-> days,
         tax_old |-> tax_old, tax_new |-> tax_new,
         gross_return_period |-> gross_return_period,
         net_return_old_period |-> net_return_old_period,
         net_return_new_period |-> net_return_new_period,
         gross_annual_rate |-> gross_annual_rate,
         net_annual_old |-> net_annual_old,
         net_annual_new |-> net_annual_new,
         cdi_gross |-> cdi_gross, cdi_net_old |-> cdi_net_old, cdi_net_new |-> cdi_net_new,
         final_gross |-> final_gross,
         final_net_old |-> final_net_old,
         final_net_new |-> final_net_new,
         difference |-> difference,
         difference_pct |-> difference_pct]

\* the candidate replaced on >=, so that the last of several maxima wins
RECURSIVE py_max_last(_, _, _)
py_max_last(data, k, best) ==
    IF k > Len(data) THEN best
    ELSE py_max_last(data, k + 1, IF data[k].difference >= data[best].difference THEN k ELSE best)

\* max(scenarios_data, key=difference): Python scans in order and replaces
\* its candidate only on a strictly greater key; the result is the index
RECURSIVE py_max(_, _, _)
py_max(data, k, best) ==
    IF k > Len(data) THEN best
    ELSE py_max(data, k + 1, IF data[k].difference > data[best].difference THEN k ELSE best)

\* min(scenarios_data, key=difference): replaces only on a strictly smaller key
RECURSIVE py_min(_, _, _)
py_min(data, k, best) ==
    IF k > Len(data) THEN best
    ELSE py_min(data, k + 1, IF data[k].difference < data[best].difference THEN k ELSE best)

\* ---------------------------------------------------------------- state tuples
vars == <<pc, raised, tab1, scenario_investment_type, scenario_return_type,
          scenario_initial_investment, scenario_cdi_value, scenario_investment_return,
          scenario_type, scenario_total_rate_gross, scenario_cdi_percentage,
          scenarios_days, scenario_labels, i, scenarios_data,
          best_scenario, worst_scenario, call_result, last_run, last_tab1>>

hist == <<last_run, last_tab1>>

tab2_vars == <<scenario_investment_type, scenario_return_type,
               scenario_initial_investment, scenario_cdi_value, scenario_investment_return,
               scenario_type, scenario_total_rate_gross, scenario_cdi_percentage,
               scenarios_days, scenario_labels, i, scenarios_data,
               best_scenario, worst_scenario>>

tab2_inputs == <<scenario_investment_type, scenario_return_type,
                 scenario_initial_investment, scenario_cdi_value, scenario_investment_return,
                 scenario_type, scenario_total_rate_gross, scenario_cdi_percentage,
                 scenarios_days, scenario_labels>>

NoCall == [called |-> FALSE, rate |-> 0, days |-> 0, kind |-> "", val |-> 0]

\* no batch evaluation remembered
NoRun ==
    [valid |-> FALSE, investment_type |-> "", return_type |-> "",
     initial_investment |-> 0, cdi_value |-> 0, investment_return |-> 0,
     total_rate_gross |-> 0, days |-> <<>>,
     data |-> <<>>, best |-> <<>>, worst |-> <<>>]

\* the finished batch evaluation of the current state: its inputs and outputs
ThisRun ==
    [valid |-> TRUE,
     investment_type |-> scenario_investment_type,
     return_type |-> scenario_return_type,
     initial_investment |-> scenario_initial_investment,
     cdi_value |-> scenario_cdi_value,
     investment_return |-> scenario_investment_return,
     total_rate_gross |-> scenario_total_rate_gross,
     days |-> scenarios_days,
     data |-> scenarios_data, best |-> best_scenario, worst |-> worst_scenario]

Init ==
    /\ pc = "start"
    /\ raised = "None"
    /\ tab1 = Tab1Blank
    /\ scenario_investment_type = ""
    /\ scenario_return_type = ""
    /\ scenario_initial_investment = 0
    /\ scenario_cdi_value = 0
    /\ scenario_investment_return = 0
    /\ scenario_type = ""
    /\ scenario_total_rate_gross = 0
    /\ scenario_cdi_percentage = NoFrac
    /\ scenarios_days = <<>>
    /\ scenario_labels = <<>>
    /\ i = 0
    /\ scenarios_data = <<>>
    /\ best_scenario = <<>>
    /\ worst_scenario = <<>>
    /\ call_result = NoCall
    /\ last_run = NoRun
    /\ last_tab1 = Tab1Blank

\* ---------------------------------------------------------------- actions
\* `with tab1:` - the widgets are read and the individual scenario is
\* computed; an exception ends the script run before tab 2
Tab1Over(types, rtypes, principals, cdis, returns, terms) ==
    /\ pc = "start"
    /\ \E it \in types, rt \in rtypes, ii \in principals,
          cdi \in cdis, ret \in returns, term \in terms :
          LET r == Tab1Body(it, rt, ii, cdi, ret, term)
          IN  /\ tab1' = r
              /\ raised' = r.raised
              /\ pc' = IF r.raised = "None" THEN "tab2" ELSE "error"
    /\ UNCHANGED <<tab2_vars, call_result>>

Tab1 ==
    /\ Tab1Over(InvestmentTypes, ReturnTypes, InvestmentChoices,
                CdiChoices, ReturnChoices, TermChoices)
    /\ UNCHANGED hist

\* the % of CDI formula applied to both return types
scenario_rate_always_cdi(return_type, investment_return, cdi_value) ==
    pct_of_cdi_rate(investment_return, cdi_value)

\* "Calculate scenario parameters": scenario_total_rate_gross
scenario_rate(return_type, investment_return, cdi_value) ==
    IF return_type = "% CDI" THEN pct_of_cdi_rate(investment_return, cdi_value)
    ELSE prefixed_rate(investment_return)

\* `with tab2:` up to "Calculate scenario parameters" - the configuration
\* widgets are read and the gross annual rate is derived.
\* Tab 2 reads none of the locals of tab 1, which leave the state here.
Tab2ParamsOver(types, rtypes, principals, cdis, returns, stypes) ==
    /\ pc = "tab2"
    /\ \E it \in types, rt \in rtypes, ii \in principals,
          cdi \in cdis, ret \in returns, st \in stypes :
          LET cdi_percentage == IF rt = "% CDI" THEN Divide(ret, PctUnit)
                                ELSE Divide(ret * 100, cdi)
              total == scenario_rate(rt, ret, cdi)
          IN  /\ scenario_investment_type' = it
              /\ scenario_return_type' = rt
              /\ scenario_initial_investment' = ii
              /\ scenario_cdi_value' = cdi
              /\ scenario_investment_return' = ret
              /\ scenario_type' = st
              /\ IF ~cdi_percentage.ok
                 THEN /\ raised' = "ZeroDivisionError"
                      /\ pc' = "error"
                      /\ UNCHANGED <<scenario_total_rate_gross, scenario_cdi_percentage>>
                 ELSE /\ raised' = raised
                      /\ pc' = "terms"
                      /\ scenario_total_rate_gross' = total
                      /\ scenario_cdi_percentage' = cdi_percentage
    /\ tab1' = Tab1Blank
    /\ UNCHANGED <<scenarios_days, scenario_labels, i, scenarios_data,
                   best_scenario, worst_scenario, call_result>>

Tab2Params ==
    /\ Tab2ParamsOver(InvestmentTypes, ReturnTypes, InvestmentChoices,
                      CdiChoices, ReturnChoices,
                      {"Prazos Padrão", "Prazos Personalizados"})
    /\ UNCHANGED hist

\* the guard left out: the loop and the selection run on the empty list
scenarios_guard_absent(days) == "loop"

\* `if scenarios_days:` - where the run continues once the lists are built
scenarios_guard(days) == IF days # <<>> THEN "loop" ELSE "done"

\* "Define scenarios based on selection" and the guard `if scenarios_days:`
Tab2TermsOver(slots, choices) ==
    /\ pc = "terms"
    /\ \E widget \in [1..slots -> choices] :
          LET days == IF scenario_type = "Prazos Padrão" THEN StandardDays
                      ELSE Slice(custom_days(widget, slots), MaxScenarios)
              labels == IF scenario_type = "Prazos Padrão" THEN StandardLabels
                        ELSE Slice(custom_labels(widget, slots), MaxScenarios)
          IN  /\ scenarios_days' = days
              /\ scenario_labels' = labels
              /\ pc' = scenarios_guard(days)
              /\ i' = IF scenarios_guard(days) = "loop" THEN 1 ELSE i
    /\ UNCHANGED <<raised, tab1, scenario_investment_type, scenario_return_type,
                   scenario_initial_investment, scenario_cdi_value,
                   scenario_investment_return, scenario_type,
                   scenario_total_rate_gross, scenario_cdi_percentage,
                   scenarios_data, best_scenario, worst_scenario, call_result>>

Tab2Terms ==
    /\ Tab2TermsOver(NumSlots, CustomDayChoices)
    /\ UNCHANGED hist

\* `for i, days in enumerate(scenarios_days)`: one iteration, or the exit
\* of the loop when the list is exhausted
Tab2Scenario ==
    /\ pc = "loop"
    /\ IF i > Len(scenarios_days)
       THEN /\ pc' = "insights"
            /\ UNCHANGED <<raised, i, scenarios_data>>
       ELSE LET row == scenario_row(i, scenarios_days[i], scenario_labels,
                                    scenario_investment_type, scenario_initial_investment,
                                    scenario_cdi_value, scenario_total_rate_gross)
            IN  IF row.raised
                THEN /\ raised' = "ZeroDivisionError"
                     /\ pc' = "error"
                     /\ UNCHANGED <<i, scenarios_data>>
                ELSE /\ raised' = raised
                     /\ scenarios_data' = Append(scenarios_data, row)
                     /\ i' = i + 1
                     /\ pc' = "loop"
    /\ UNCHANGED <<tab1, tab2_inputs, best_scenario, worst_scenario, call_result, hist>>

\* "Find best and worst scenarios"; max() and min() of an empty sequence
\* raise ValueError
Tab2Insights ==
    /\ pc = "insights"
    /\ IF scenarios_data = <<>>
       THEN /\ raised' = "ValueError"
            /\ pc' = "error"
            /\ UNCHANGED <<best_scenario, worst_scenario>>
       ELSE LET b == py_max(scenarios_data, 1, 1)
                w == py_min(scenarios_data, 1, 1)
            IN  /\ best_scenario' = <<b, scenarios_data[b]>>
                /\ worst_scenario' = <<w, scenarios_data[w]>>
                /\ raised' = raised
                /\ pc' = "done"
    /\ UNCHANGED <<tab1, tab2_inputs, i, scenarios_data, call_result, hist>>

\* a direct call of calculate_compound_return(rate, days)
CallCompoundReturn ==
    /\ pc = "start"
    /\ \E rate \in CallRates, days \in CallDays :
          LET r == calculate_compound_return(rate, days)
          IN  call_result' = [called |-> TRUE, rate |-> rate, days |-> days,
                              kind |-> r.kind, val |-> r.val]
    /\ pc' = "done"
    /\ UNCHANGED <<raised, tab1, tab2_vars, hist>>

\* a widget changes and the script runs again from the top with fresh locals
FreshRun ==
    /\ pc \in {"done", "error"}
    /\ pc' = "start"
    /\ raised' = "None"
    /\ tab1' = Tab1Blank
    /\ scenario_investment_type' = ""
    /\ scenario_return_type' = ""
    /\ scenario_initial_investment' = 0
    /\ scenario_cdi_value' = 0
    /\ scenario_investment_return' = 0
    /\ scenario_type' = ""
    /\ scenario_total_rate_gross' = 0
    /\ scenario_cdi_percentage' = NoFrac
    /\ scenarios_days' = <<>>
    /\ scenario_labels' = <<>>
    /\ i' = 0
    /\ scenarios_data' = <<>>
    /\ best_scenario' = <<>>
    /\ worst_scenario' = <<>>
    /\ call_result' = NoCall

Rerun ==
    /\ FreshRun
    /\ UNCHANGED hist

Next ==
    \/ Tab1
    \/ Tab2Params
    \/ Tab2Terms
    \/ Tab2Scenario
    \/ Tab2Insights
    \/ CallCompoundReturn
    \/ Rerun

Spec == Init /\ [][Next]_vars

\* ---------------------------------------------------------------- two evaluations
\* The same script, with a memory of earlier evaluations kept beside it so
\* that two evaluations can be compared: any finished evaluation may be the
\* one remembered.  The widget values are drawn from smaller sets.
HistSlots == 2
HistCdiChoices == {1000, 1465}
HistReturnChoices == {1400}
HistInvestmentChoices == {100}
HistTermChoices == {179}
HistDayChoices == {0, 179, 720}

HistTab1 ==
    /\ Tab1Over({"Tributável"}, ReturnTypes, HistInvestmentChoices,
                HistCdiChoices, HistReturnChoices, HistTermChoices)
    /\ UNCHANGED hist

HistTab2Params ==
    /\ Tab2ParamsOver(RadioInvestmentTypes, ReturnTypes, HistInvestmentChoices,
                      HistCdiChoices, HistReturnChoices, {"Prazos Personalizados"})
    /\ last_tab1' \in {last_tab1, tab1}
    /\ UNCHANGED last_run

HistTab2Terms ==
    /\ Tab2TermsOver(HistSlots, HistDayChoices)
    /\ UNCHANGED hist

HistRerun ==
    /\ FreshRun
    /\ last_run' \in {last_run, ThisRun}
    /\ UNCHANGED last_tab1

NextHist ==
    \/ HistTab1
    \/ HistTab2Params
    \/ HistTab2Terms
    \/ Tab2Scenario
    \/ Tab2Insights
    \/ HistRerun

SpecHist == Init /\ [][NextHist]_vars


\* ---------------------------------------------------------------- properties
\* tab 1 has read its widgets
Tab1Ran == tab1.term_input # 0

\* tab 1 has computed its returns and final amounts
Tab1Computed == Tab1Ran /\ tab1.line \notin {130, 138}

Rows == 1..Len(scenarios_data)

\* the bracket table of the old regime, as a relation between term and rate
BracketTable(termDays, rate) ==
    /\ termDays >= 720 => rate = Rate_0_15
    /\ (360 <= termDays /\ termDays < 720) => rate = Rate_0_175
    /\ (180 <= termDays /\ termDays < 360) => rate = Rate_0_2
    /\ termDays < 180 => rate = Rate_0_225

C2_ExemptRates ==
    /\ (Tab1Ran /\ tab1.investment_type_input_selector = "Isento")
          => /\ tab1.raised # "UnboundLocalError"
             /\ tab1.tax_rate_old = Rate_0_0
             /\ tab1.tax_rate_new = Rate_0_05
    /\ scenario_investment_type = "Isento"
          => \A k \in Rows : /\ scenarios_data[k].tax_old = Rate_0_0
                             /\ scenarios_data[k].tax_new = Rate_0_05

\* an exempt individual scenario of 720 days, whose bracket rate was 0.15
C2_Witness ==
    /\ Tab1Ran
    /\ tab1.investment_type_input_selector = "Isento"
    /\ tab1.term_input = 720
    /\ tab1.tax_rate_old = Rate_0_0
    /\ tab1.tax_rate_new = Rate_0_05

\* C3: for category Taxable the new-regime rate is 0.175 for every term and
\* the old-regime rate is the bracket rate of the term, unchanged.
C3_TaxableRates ==
    /\ (Tab1Ran /\ tab1.investment_type_input_selector = "Tributável")
          => /\ tab1.raised # "UnboundLocalError"
             /\ tab1.tax_rate_new = Rate_0_175
             /\ tab1.tax_rate_old = tab1_tax_rate_old(tab1.term_input)
    /\ scenario_investment_type = "Tributável"
          => \A k \in Rows : /\ scenarios_data[k].tax_new = Rate_0_175
                             /\ scenarios_data[k].tax_old = current_tax_rate(scenarios_data[k].Dias)

\* a taxable batch with a row below 180 days and a row from 720 days
C3_Witness ==
    /\ scenario_investment_type = "Tributável"
    /\ \E k \in Rows : /\ scenarios_data[k].Dias < 180
                       /\ scenarios_data[k].tax_old = Rate_0_225
                       /\ scenarios_data[k].tax_new = Rate_0_175
    /\ \E k \in Rows : /\ scenarios_data[k].Dias >= 720
                       /\ scenarios_data[k].tax_old = Rate_0_15
                       /\ scenarios_data[k].tax_new = Rate_0_175

\* principal * (1 + periodReturn * (1 - taxRate)), the product taken before
\* the division
NetAmount(principal, periodReturn, taxRate) ==
    principal * (One + (periodReturn * (TaxScale - taxRate)) \div TaxScale)

\* C4: every final amount is principal * (1 + periodReturn) of its variant:
\* the gross one with the gross period return, the net ones with the gross
\* period return * (1 - tax rate of the regime); the tax rate multiplies the
\* return only.
C4_FinalAmounts ==
    /\ Tab1Computed
          => /\ tab1.final_amount_gross
                  = tab1.initial_investment * (One + tab1.gross_return_period)
             /\ tab1.final_amount_net_old
                  = NetAmount(tab1.initial_investment, tab1.gross_return_period, tab1.tax_rate_old)
             /\ tab1.final_amount_net_new
                  = NetAmount(tab1.initial_investment, tab1.gross_return_period, tab1.tax_rate_new)
             /\ tab1.net_return_old_period * TaxScale
                  = tab1.gross_return_period * (TaxScale - tab1.tax_rate_old)
             /\ tab1.net_return_new_period * TaxScale
                  = tab1.gross_return_period * (TaxScale - tab1.tax_rate_new)
    /\ \A k \in Rows :
          LET r == scenarios_data[k]
          IN  /\ r.final_gross = scenario_initial_investment * (One + r.gross_return_period)
              /\ r.final_net_old
                   = NetAmount(scenario_initial_investment, r.gross_return_period, r.tax_old)
              /\ r.final_net_new
                   = NetAmount(scenario_initial_investment, r.gross_return_period, r.tax_new)
              /\ r.net_return_old_period * TaxScale = r.gross_return_period * (TaxScale - r.tax_old)
              /\ r.net_return_new_period * TaxScale = r.gross_return_period * (TaxScale - r.tax_new)

\* a batch row with a positive return, a positive tax under both regimes and
\* a principal other than one unit
C4_Witness ==
    /\ scenario_initial_investment = 100
    /\ \E k \in Rows : /\ scenarios_data[k].gross_return_period > 0
                       /\ scenarios_data[k].tax_old > 0
                       /\ scenarios_data[k].tax_new > 0
                       /\ scenarios_data[k].final_net_old < scenarios_data[k].final_gross
                       /\ scenarios_data[k].final_net_old > 100 * One

\* C5: when the batch term list is built empty, the run ends there: no row
\* is produced, no best/worst scenario is selected and nothing is raised.
C5_EmptyTermList ==
    [][(pc = "terms" /\ scenarios_days' = <<>>)
          => /\ pc' = "done"
             /\ raised' = "None"
             /\ scenarios_data' = <<>>
             /\ best_scenario' = <<>>
             /\ worst_scenario' = <<>>]_vars

\* a finished run of the custom terms with every term filtered out
C5_Witness ==
    /\ pc = "done"
    /\ scenario_type = "Prazos Personalizados"
    /\ scenarios_days = <<>>
    /\ scenarios_data = <<>>
    /\ best_scenario = <<>>
    /\ worst_scenario = <<>>
    /\ raised = "None"

\* C6: the batch produces one row per term in the order of the term list:
\* row k carries term k and label k, and when the loop has finished there
\* are as many rows as terms.
C6_RowsFollowTerms ==
    /\ Len(scenario_labels) = Len(scenarios_days)
    /\ Len(scenarios_data) <= Len(scenarios_days)
    /\ pc = "loop" => Len(scenarios_data) = i - 1
    /\ pc \in {"insights", "done"} => Len(scenarios_data) = Len(scenarios_days)
    /\ \A k \in Rows : /\ scenarios_data[k].Dias = scenarios_days[k]
                       /\ scenarios_data[k].Prazo = scenario_labels[k]

\* a finished batch of three custom terms that are not in ascending order
C6_Witness ==
    /\ pc = "done"
    /\ scenario_type = "Prazos Personalizados"
    /\ Len(scenarios_data) = 3
    /\ scenarios_days[1] > scenarios_days[2]
    /\ scenarios_data[1].Dias > scenarios_data[2].Dias
    /\ scenarios_data[3].Prazo = scenario_labels[3]

\* C7: the best scenario has the maximum difference and the worst the
\* minimum; among several rows with the maximum (minimum) the one with the
\* smallest index is selected.
C7_BestWorstFirst ==
    /\ best_scenario # <<>>
          => LET b == best_scenario[1]
             IN  /\ b \in Rows
                 /\ best_scenario[2] = scenarios_data[b]
                 /\ \A k \in Rows : scenarios_data[k].difference <= scenarios_data[b].difference
                 /\ \A k \in 1..(b - 1) : scenarios_data[k].difference < scenarios_data[b].difference
    /\ worst_scenario # <<>>
          => LET w == worst_scenario[1]
             IN  /\ w \in Rows
                 /\ worst_scenario[2] = scenarios_data[w]
                 /\ \A k \in Rows : scenarios_data[k].difference >= scenarios_data[w].difference
                 /\ \A k \in 1..(w - 1) : scenarios_data[k].difference > scenarios_data[w].difference
    /\ (pc = "done" /\ scenarios_data # <<>>) => (best_scenario # <<>> /\ worst_scenario # <<>>)

\* a selection among rows of which two share the maximum and a third is
\* smaller: the first of the two is the best scenario
C7_Witness ==
    /\ best_scenario # <<>>
    /\ best_scenario[1] = 1
    /\ \E k \in Rows : k > 1 /\ scenarios_data[k].difference = scenarios_data[1].difference
    /\ \E k \in Rows : scenarios_data[k].difference < scenarios_data[1].difference
    /\ worst_scenario[1] > 1

\* C8: with cdiAnnualRate = 0 every CDI-equivalence conversion yields a
\* defined value and the evaluation completes; no division error is raised,
\* in tab 1 or in tab 2.
C8_CdiZeroCompletes ==
    /\ (Tab1Ran /\ tab1.cdi_value_input = 0) => tab1.raised # "ZeroDivisionError"
    /\ (scenario_type # "" /\ scenario_cdi_value = 0) => raised # "ZeroDivisionError"

\* C9: an annual rate <= -100 % is rejected: calculate_compound_return
\* reports an error and returns no period return.
C9_RateDomainRejected ==
    (call_result.called /\ call_result.rate <= -100 * RateUnit)
        => call_result.kind = "error"

\* C10: a category outside {Taxable, TaxExempt} makes rate resolution fail in
\* both paths: tab 1 raises, and tab 2 produces no row for it.
C10_UnmappedCategoryFails ==
    /\ (Tab1Ran /\ tab1.investment_type_input_selector \notin RadioInvestmentTypes)
          => tab1.raised = "UnboundLocalError"
    /\ (scenario_type # "" /\ scenario_investment_type \notin RadioInvestmentTypes)
          => scenarios_data = <<>>

\* the term list of tab 2 has been built
TermsBuilt == pc \in {"loop", "insights", "done"} /\ scenario_type # ""

\* the remembered batch evaluation had the base input of the current one
SameBaseAsLast ==
    /\ last_run.valid
    /\ scenario_type # ""
    /\ last_run.investment_type = scenario_investment_type
    /\ last_run.return_type = scenario_return_type
    /\ last_run.initial_investment = scenario_initial_investment
    /\ last_run.cdi_value = scenario_cdi_value
    /\ last_run.investment_return = scenario_investment_return

\* the remembered individual evaluation had the inputs of the current one
SameTab1AsLast ==
    /\ Tab1Ran
    /\ last_tab1.investment_type_input_selector = tab1.investment_type_input_selector
    /\ last_tab1.return_type_input_selector = tab1.return_type_input_selector
    /\ last_tab1.initial_investment = tab1.initial_investment
    /\ last_tab1.cdi_value_input = tab1.cdi_value_input
    /\ last_tab1.investment_return_input = tab1.investment_return_input
    /\ last_tab1.term_input = tab1.term_input

RowAmounts(r) ==
    <<r.gross_annual_rate, r.gross_return_period,
      r.net_return_old_period, r.net_return_new_period,
      r.final_gross, r.final_net_old, r.final_net_new>>

\* the returns and final amounts of the individual scenario
Tab1Amounts(t) ==
    <<t.total_rate_gross, t.gross_return_period,
      t.net_return_old_period, t.net_return_new_period,
      t.final_amount_gross, t.final_amount_net_old, t.final_amount_net_new>>

\* C12: with a flat pre-fixed return the gross annual rate is the percentage
\* entered, and two evaluations that differ only in the CDI value have the
\* same returns and final amounts, in the batch and in the individual
\* scenario.
C12_PrefixedIgnoresCdi ==
    /\ (scenario_return_type = "Pré-fixado" /\ pc \in {"terms", "loop", "insights", "done"})
          => /\ scenario_total_rate_gross * PctUnit = scenario_investment_return * RateUnit
             /\ \A k \in Rows :
                   scenarios_data[k].gross_annual_rate * PctUnit
                       = scenario_investment_return * RateUnit
    /\ (/\ last_run.valid
        /\ TermsBuilt
        /\ scenario_return_type = "Pré-fixado"
        /\ last_run.return_type = "Pré-fixado"
        /\ last_run.investment_type = scenario_investment_type
        /\ last_run.initial_investment = scenario_initial_investment
        /\ last_run.investment_return = scenario_investment_return
        /\ last_run.days = scenarios_days)
          => \A k \in Rows : RowAmounts(scenarios_data[k]) = RowAmounts(last_run.data[k])
    /\ (Tab1Computed /\ tab1.return_type_input_selector = "Pré-fixado")
          => tab1.total_rate_gross * PctUnit = tab1.investment_return_input * RateUnit
    /\ (/\ Tab1Computed
        /\ tab1.return_type_input_selector = "Pré-fixado"
        /\ last_tab1.return_type_input_selector = "Pré-fixado"
        /\ last_tab1.investment_type_input_selector = tab1.investment_type_input_selector
        /\ last_tab1.initial_investment = tab1.initial_investment
        /\ last_tab1.investment_return_input = tab1.investment_return_input
        /\ last_tab1.term_input = tab1.term_input)
          => Tab1Amounts(tab1) = Tab1Amounts(last_tab1)

\* two finished pre-fixed batches that differ in the CDI value only: the
\* amounts agree and the % of CDI figure differs
C12_Witness ==
    /\ pc = "done"
    /\ last_run.valid
    /\ scenario_return_type = "Pré-fixado"
    /\ last_run.return_type = "Pré-fixado"
    /\ last_run.investment_type = scenario_investment_type
    /\ last_run.days = scenarios_days
    /\ last_run.cdi_value # scenario_cdi_value
    /\ scenarios_data # <<>>
    /\ scenarios_data[1].gross_return_period > 0
    /\ RowAmounts(scenarios_data[1]) = RowAmounts(last_run.data[1])
    /\ scenarios_data[1].cdi_gross # last_run.data[1].cdi_gross

C14_ShortTermNewBetter ==
    /\ (/\ Tab1Computed
        /\ tab1.investment_type_input_selector = "Tributável"
        /\ tab1.term_input < 180
        /\ tab1.gross_return_period > 0)
          => /\ tab1.tax_rate_old = Rate_0_225
             /\ tab1.tax_rate_new = Rate_0_175
             /\ tab1.net_return_new_period > tab1.net_return_old_period
             /\ tab1.final_amount_net_new > tab1.final_amount_net_old
    /\ scenario_investment_type = "Tributável"
          => \A k \in Rows :
                (scenarios_data[k].Dias < 180 /\ scenarios_data[k].gross_return_period > 0)
                   => /\ scenarios_data[k].tax_old = Rate_0_225
                      /\ scenarios_data[k].tax_new = Rate_0_175
                      /\ scenarios_data[k].net_return_new_period
                            > scenarios_data[k].net_return_old_period
                      /\ scenarios_data[k].final_net_new > scenarios_data[k].final_net_old

\* a taxable individual scenario of 179 days with a positive return
C14_Witness ==
    /\ Tab1Computed
    /\ tab1.investment_type_input_selector = "Tributável"
    /\ tab1.term_input = 179
    /\ tab1.gross_return_period > 0
    /\ tab1.final_amount_net_new > tab1.final_amount_net_old

\* the rates, returns, final amounts and difference of a batch row
RowResult(r) ==
    <<r.tax_old, r.tax_new, r.gross_annual_rate, r.gross_return_period,
      r.net_return_old_period, r.net_return_new_period,
      r.final_gross, r.final_net_old, r.final_net_new, r.difference>>

\* the same quantities of the individual scenario
Tab1Result(t) ==
    <<t.tax_rate_old, t.tax_rate_new, t.total_rate_gross, t.gross_return_period,
      t.net_return_old_period, t.net_return_new_period,
      t.final_amount_gross, t.final_amount_net_old, t.final_amount_net_new, t.difference>>

RowsIndependent ==
    /\ \A k \in Rows :
          /\ scenarios_data[k].gross_annual_rate = scenario_total_rate_gross
          /\ scenarios_data[k].final_gross
                = scenario_initial_investment * (One + scenarios_data[k].gross_return_period)
          /\ scenarios_data[k].cdi_gross.den = scenario_cdi_value * (RateUnit \div PctUnit)
    /\ \A j, k \in Rows :
          scenarios_data[j].Dias = scenarios_data[k].Dias
             => scenarios_data[j] = scenarios_data[k]
    /\ SameBaseAsLast
          => \A k \in Rows : \A j \in 1..Len(last_run.data) :
                last_run.data[j].Dias = scenarios_data[k].Dias
                   => last_run.data[j] = scenarios_data[k]

\* C16: in a batch the principal, the gross annual rate and the CDI value
\* are the same for every row, the row of a term is the same whatever the
\* other terms of the list and its position, and an iteration of the loop
\* leaves the base input and the rows already produced unchanged.
C16_RowsIndependent ==
    [][/\ RowsIndependent'
       /\ pc = "loop"
             => /\ tab2_inputs' = tab2_inputs
                /\ Len(scenarios_data') >= Len(scenarios_data)
                /\ \A k \in Rows : scenarios_data'[k] = scenarios_data[k]]_vars

\* two finished batches with the same base input and the terms 179 and 720
\* in opposite orders
C16_Witness ==
    /\ pc = "done"
    /\ SameBaseAsLast
    /\ scenario_investment_type = "Tributável"
    /\ scenarios_days = <<720, 179>>
    /\ last_run.days = <<179, 720>>
    /\ Len(scenarios_data) = 2
    /\ scenarios_data[2] = last_run.data[1]
    /\ scenarios_data[1] = last_run.data[2]
    /\ scenarios_data[1].difference # scenarios_data[2].difference

\* C17: for category 'Isento' the new regime is never better than the
\* current one: the difference of the final amounts is <= 0 for every term
\* and rate, strictly negative when the gross period return is positive,
\* and the best scenario of an exempt batch never has a positive difference.
C17_ExemptNewNeverBetter ==
    /\ (Tab1Computed /\ tab1.investment_type_input_selector = "Isento")
          => /\ tab1.final_amount_net_new - tab1.final_amount_net_old <= 0
             /\ tab1.difference <= 0
             /\ tab1.gross_return_period > 0 => tab1.difference < 0
    /\ scenario_investment_type = "Isento"
          => /\ \A k \in Rows :
                   /\ scenarios_data[k].final_net_new - scenarios_data[k].final_net_old <= 0
                   /\ scenarios_data[k].difference <= 0
                   /\ scenarios_data[k].gross_return_period > 0
                         => scenarios_data[k].difference < 0
             /\ (pc = "done" /\ best_scenario # <<>>)
                   => best_scenario[2].difference <= 0

\* a finished exempt batch whose best scenario loses under the new regime
C17_Witness ==
    /\ pc = "done"
    /\ scenario_investment_type = "Isento"
    /\ Len(scenarios_data) >= 2
    /\ best_scenario[2].gross_return_period > 0
    /\ best_scenario[2].difference < 0
    /\ worst_scenario[2].difference < best_scenario[2].difference

\* principal <= net final amount <= gross final amount, in the units of
\* the final amounts
AmountsOrdered(principal, final_net, final_gross) ==
    /\ principal * One <= final_net
    /\ final_net <= final_gross

\* C18: for a principal >= 100, a gross annual rate >= 0, a term >= 1 and
\* a category of the selector, principal <= final_amount_net_old <=
\* final_amount_gross and principal <= final_amount_net_new <=
\* final_amount_gross; final_amount_net_old is strictly positive and the
\* divisions by it in the individual tab never raise.
C18_AmountsBounded ==
    /\ tab1.line # 216
    /\ Tab1Computed
          => /\ tab1.investment_type_input_selector \in RadioInvestmentTypes
             /\ tab1.initial_investment >= 1
             /\ tab1.total_rate_gross >= 0
             /\ tab1.term_input >= 1
             /\ AmountsOrdered(tab1.initial_investment, tab1.final_amount_net_old,
                               tab1.final_amount_gross)
             /\ AmountsOrdered(tab1.initial_investment, tab1.final_amount_net_new,
                               tab1.final_amount_gross)
             /\ tab1.final_amount_net_old > 0
             /\ tab1.difference_pct.ok
             /\ tab1.percentage_diff.ok
    /\ scenario_investment_type \in RadioInvestmentTypes
          => \A k \in Rows :
                /\ AmountsOrdered(scenario_initial_investment, scenarios_data[k].final_net_old,
                                  scenarios_data[k].final_gross)
                /\ AmountsOrdered(scenario_initial_investment, scenarios_data[k].final_net_new,
                                  scenarios_data[k].final_gross)
                /\ scenarios_data[k].final_net_old > 0
                /\ scenarios_data[k].difference_pct.ok

\* a taxable individual scenario of 179 days with a positive return: the
\* amounts are strictly ordered and the percentage difference is computed
C18_Witness ==
    /\ Tab1Computed
    /\ tab1.investment_type_input_selector = "Tributável"
    /\ tab1.term_input = 179
    /\ tab1.initial_investment * One < tab1.final_amount_net_old
    /\ tab1.final_amount_net_old < tab1.final_amount_net_new
    /\ tab1.final_amount_net_new < tab1.final_amount_gross
    /\ tab1.difference_pct.ok
    /\ tab1.difference_pct.num > 0
    /\ tab1.difference_pct.den = tab1.final_amount_net_old
====
